---------------------------- MODULE Spec2Model ----------------------------
(***************************************************************************)
(* A model of src/src/main.js: the CSS3D tile scene (tile registry, the    *)
(* four layout generators, the tween-driven transition engine, the frame   *)
(* loop, scene (re)initialisation) and the OAuth token callback that feeds *)
(* it from the sheet.                                                      *)
(*                                                                         *)
(* main.js holds two revisions of the file back to back (lines 1-85 and    *)
(* lines 86-538); the model follows the later one, which has the scene.    *)
(*                                                                         *)
(* Arithmetic is exact fixed point: scene units are integers, angles are   *)
(* milliradians, the easing value is a fraction of EaseDen.  The external  *)
(* libraries (tween.module.js, three.js, the browser's frame queue) are    *)
(* modelled by their documented behaviour at the places main.js calls      *)
(* them.  An orientation is kept as the look-at direction the code hands   *)
(* to Object3D.lookAt ((0,0,0) for an object that never had lookAt called).*)
(***************************************************************************)
EXTENDS Integers, Sequences, FiniteSets, TLC

VARIABLES
    objects,      \* const objects = []: the tiles, in record order
    targets,      \* const targets = {table, sphere, helix, grid}
    tweens,       \* the TWEEN group: the tweens added and not yet removed
    now,          \* the clock TWEEN reads (performance.now()), in ms
    animationId,  \* let animationId: 0 (undefined) or a frame handle
    nextFrameId,  \* the next handle requestAnimationFrame will return
    pending,      \* the frame callbacks requested and neither run nor cancelled
    controls,     \* let controls: 0 (undefined) or the generation that made them
    renderer,     \* let renderer: 0 (undefined) or the generation that made it
    attached,     \* generations whose renderer.domElement is in #container
    gen,          \* number of initScene calls so far (the scene generation)
    menuHandlers, \* click listeners registered on each menu button
    accessToken,  \* let accessToken: whether it holds a token
    calls,        \* the token callbacks under way, each with its progress
    lastDone,     \* history: how the callback that ended last ended
    statusText,   \* statusEl.textContent, as a kind
    overlayHidden,\* authOverlay has class "hidden"
    menuShown,    \* menuEl.style.display = "flex"
    threw,        \* the exception that escaped a handler uncaught, or NONE
    transStart,   \* history: clock value at the latest transform call
    transTarget,  \* history: the layout list handed to the latest transform
    lastRecords,  \* history: the records handed to the latest initScene
    gestures,     \* history: clicks of the user so far
    lyRows,       \* layout specification: number of records fetched
    rawWorth,     \* net-worth specification: the raw cell
    worthOut      \* net-worth specification: [value, class] once computed

vars == <<objects, targets, tweens, now, animationId, nextFrameId, pending,
          controls, renderer, attached, gen, menuHandlers, accessToken, calls,
          lastDone, statusText, overlayHidden, menuShown, threw, transStart, transTarget,
          lastRecords, gestures, lyRows, rawWorth, worthOut>>

NONE == "none"

-----------------------------------------------------------------------------
(* Bounds of the model *)

\* most rows below the header in a fetched sheet (scene specification)
MaxSheetRows == 3
\* most clicks of the user, on the sign-in button and the menu together
MaxGestures == 3
\* the clock stops advancing here
MaxTime == 2500
\* time between two frames, ms
FrameStep == 500
\* most rows fetched in the layout specification
MaxRows == 203
\* longest raw net-worth cell, in characters
MaxRawLen == 3

-----------------------------------------------------------------------------
(* CONFIG, main.js:99-106 *)

columns == 20
rows == 10
spacingX == 140
spacingY == 180
sphereRadius == 900
helixRadius == 1000
separation == 28
\* angleStep 0.4 rad, in milliradians
angleStep == 400
gridX == 5
gridY == 4
gridZ == 10
spacing == 320
netWorthLow == 100000
netWorthHigh == 200000

\* const MAX_RECORDS = CONFIG.table.columns * CONFIG.table.rows
MAX_RECORDS == columns * rows

\* the duration every caller passes to transform
Duration == 2000

-----------------------------------------------------------------------------
(* Fixed-point stand-ins for Math.PI, Math.sin, Math.cos, Math.sqrt, Math.acos *)

\* Math.PI in milliradians
PiMilli == 3142
\* one, in thousandths
Milli == 1000

Min(a, b) == IF a <= b THEN a ELSE b
Abs(a) == IF a < 0 THEN -a ELSE a

RECURSIVE SqrtIter(_, _)
SqrtIter(n, x) ==
    LET y == (x + n \div x) \div 2
    IN  IF y >= x THEN x ELSE SqrtIter(n, y)

\* floor of the square root
ISqrt(n) == IF n <= 0 THEN 0 ELSE SqrtIter(n, n)

\* sin of x milliradians, 0 <= x <= pi, in thousandths (Bhaskara's rational form)
SinArc(x) ==
    LET p == x * (PiMilli - x)
    IN  (16 * p) \div ((5 * PiMilli * PiMilli - 4 * p) \div Milli)

SinMilli(a) ==
    LET r == a % (2 * PiMilli)
    IN  IF r <= PiMilli THEN SinArc(r) ELSE -SinArc(r - PiMilli)

CosMilli(a) == SinMilli(a + PiMilli \div 2)

\* acos of v thousandths, in milliradians: the inverse of the same rational form
AcosMilli(v) ==
    LET c == Abs(v)
        y == (PiMilli * ISqrt((Milli * Milli * (Milli - c)) \div (4 * Milli + c))) \div Milli
    IN  IF v >= 0 THEN y ELSE PiMilli - y

-----------------------------------------------------------------------------
(* Layout generators, main.js:393-474 *)

Vec(x, y, z) == <<x, y, z>>
ZeroVec == Vec(0, 0, 0)
Pose(p, r) == [position |-> p, rotation |-> r]

TableSlotBad(i, count) ==
    LET offsetX == ((Min(count, columns) - 1) * spacingX) \div 2
        offsetY == ((rows - 1) * spacingY) \div 2
        col == i % columns
        row == i \div columns
    IN  Pose(Vec(col * spacingX - offsetX, -(row * spacingY - offsetY), 0), ZeroVec)

TableSlot(i, count) ==
    LET offsetX == ((columns - 1) * spacingX) \div 2
        offsetY == ((rows - 1) * spacingY) \div 2
        col == i % columns
        row == i \div columns
    IN  Pose(Vec(col * spacingX - offsetX, -(row * spacingY - offsetY), 0), ZeroVec)

buildTableTargets(list, count) ==
    list \o [k \in 1..count |-> TableSlot(k - 1, count)]

SphereSlot(i, count) ==
    LET phi == AcosMilli(-Milli + (2 * i * Milli) \div count)
        theta == (ISqrt(count * PiMilli * Milli) * phi) \div Milli
        x == (sphereRadius * CosMilli(theta) * SinMilli(phi)) \div (Milli * Milli)
        y == (sphereRadius * SinMilli(theta) * SinMilli(phi)) \div (Milli * Milli)
        z == (sphereRadius * CosMilli(phi)) \div Milli
    IN  \* lookAt(position * 2): the direction is the position itself
        Pose(Vec(x, y, z), Vec(2 * x - x, 2 * y - y, 2 * z - z))

buildSphereTargets(list, count) ==
    list \o [k \in 1..count |-> SphereSlot(k - 1, count)]

HelixSlot(i, count) ==
    LET strand == i % 2
        angle == i * angleStep + (IF strand = 0 THEN 0 ELSE PiMilli)
        x == (helixRadius * SinMilli(angle)) \div Milli
        y == -(i * separation) + (count * separation) \div 2
        z == (helixRadius * CosMilli(angle)) \div Milli
    IN  \* lookAt(x * 2, y, z * 2)
        Pose(Vec(x, y, z), Vec(2 * x - x, y - y, 2 * z - z))

buildHelixTargets(list, count) ==
    list \o [k \in 1..count |-> HelixSlot(k - 1, count)]

GridSlotBad(i, count) ==
    LET x == i % gridX
        y == i % gridY
        z == (i \div (gridX * gridY)) % gridZ
    IN  Pose(Vec(((2 * x - (gridX - 1)) * spacing) \div 2,
                 (-(2 * y - (gridY - 1)) * spacing) \div 2,
                 ((2 * z - (gridZ - 1)) * spacing) \div 2), ZeroVec)

GridSlot(i, count) ==
    LET x == i % gridX
        y == (i \div gridX) % gridY
        z == (i \div (gridX * gridY)) % gridZ
    IN  Pose(Vec(((2 * x - (gridX - 1)) * spacing) \div 2,
                 (-(2 * y - (gridY - 1)) * spacing) \div 2,
                 ((2 * z - (gridZ - 1)) * spacing) \div 2), ZeroVec)

buildGridTargets(list, count) ==
    list \o [k \in 1..count |-> GridSlot(k - 1, count)]

NoTargets == [table |-> <<>>, sphere |-> <<>>, helix |-> <<>>, grid |-> <<>>]

buildTargets(t, count) ==
    [table  |-> buildTableTargets(t.table, count),
     sphere |-> buildSphereTargets(t.sphere, count),
     helix  |-> buildHelixTargets(t.helix, count),
     grid   |-> buildGridTargets(t.grid, count)]

LayoutNames == {"table", "sphere", "helix", "grid"}

-----------------------------------------------------------------------------
(* Net worth: parseNetWorth and getWorthClass, main.js:280-296, 385-391 *)
(* A cell is null/undefined or a string, kept as a sequence of characters; *)
(* a parsed number is null or sign, mantissa m, decimals dec and mult:     *)
(* m * mult / 10^dec.                                                      *)

NullCell == [null |-> TRUE, text |-> <<>>]
Cell(s) == [null |-> FALSE, text |-> s]
NullWorth == [null |-> TRUE, neg |-> FALSE, m |-> 0, dec |-> 0, mult |-> 1]

WorthAlphabet ==
    {"0", "1", "2", ".", ",", "-", "$", " ", "K", "k", "M", "B", "U", "S", "D", "x"}
Digits == {"0", "1", "2", "3", "4", "5", "6", "7", "8", "9"}
NumChars == Digits \cup {",", "."}

DigitVal(c) ==
    CASE c = "0" -> 0 [] c = "1" -> 1 [] c = "2" -> 2 [] c = "3" -> 3
      [] c = "4" -> 4 [] c = "5" -> 5 [] c = "6" -> 6 [] c = "7" -> 7
      [] c = "8" -> 8 [] OTHER -> 9

RECURSIVE Pow10(_)
Pow10(d) == IF d = 0 THEN 1 ELSE 10 * Pow10(d - 1)

\* String.prototype.toUpperCase, on the characters of the alphabet
ToUpperChar(c) == IF c = "k" THEN "K" ELSE IF c = "x" THEN "X" ELSE c
ToUpper(s) == [i \in 1..Len(s) |-> ToUpperChar(s[i])]

RECURSIVE TrimLeft(_)
TrimLeft(s) == IF s # <<>> /\ Head(s) = " " THEN TrimLeft(Tail(s)) ELSE s
RECURSIVE TrimRight(_)
TrimRight(s) ==
    IF s # <<>> /\ s[Len(s)] = " " THEN TrimRight(SubSeq(s, 1, Len(s) - 1)) ELSE s
\* String.prototype.trim
Trim(s) == TrimRight(TrimLeft(s))

RemoveChar(s, c) == SelectSeq(s, LAMBDA ch : ch # c)

\* replace(/USD/g, ""): one pass, left to right
RECURSIVE RemoveUSD(_)
RemoveUSD(s) ==
    IF Len(s) < 3 THEN s
    ELSE IF SubSeq(s, 1, 3) = <<"U", "S", "D">> THEN RemoveUSD(SubSeq(s, 4, Len(s)))
    ELSE <<Head(s)>> \o RemoveUSD(Tail(s))

\* the longest run of characters of set cs in s from position p on: its end + 1
RECURSIVE RunEnd(_, _, _)
RunEnd(s, p, cs) == IF p <= Len(s) /\ s[p] \in cs THEN RunEnd(s, p + 1, cs) ELSE p

\* cleaned.match(/(-?[\d,.]+)\s*([KMB])?/): whether it matches, and groups 1
\* and 2 of the leftmost match
RegexMatch(s) ==
    LET StartsAt(p) == \/ s[p] \in NumChars
                       \/ s[p] = "-" /\ p < Len(s) /\ s[p + 1] \in NumChars
        starts == {p \in 1..Len(s) : StartsAt(p)}
    IN  IF starts = {} THEN [matched |-> FALSE, num |-> <<>>, suffix |-> ""]
        ELSE LET p == CHOOSE q \in starts : \A r \in starts : q <= r
                 b == IF s[p] = "-" THEN p + 1 ELSE p
                 e == RunEnd(s, b, NumChars)
                 w == RunEnd(s, e, {" "})
             IN  [matched |-> TRUE, num |-> SubSeq(s, p, e - 1),
                  suffix |-> IF w <= Len(s) /\ s[w] \in {"K", "M", "B"} THEN s[w] ELSE ""]

RECURSIVE DigitsValue(_)
DigitsValue(s) ==
    IF s = <<>> THEN 0 ELSE 10 * DigitsValue(SubSeq(s, 1, Len(s) - 1)) + DigitVal(s[Len(s)])

\* parseFloat of a string of "-", digits and ".": NaN, or the number as sign,
\* mantissa m and number of decimals dec (m / 10^dec)
ParseFloat(s) ==
    LET neg == s # <<>> /\ Head(s) = "-"
        b == IF neg THEN 2 ELSE 1
        ie == RunEnd(s, b, Digits)
        hasDot == ie <= Len(s) /\ s[ie] = "."
        fe == IF hasDot THEN RunEnd(s, ie + 1, Digits) ELSE ie
        ints == SubSeq(s, b, ie - 1)
        frac == IF hasDot THEN SubSeq(s, ie + 1, fe - 1) ELSE <<>>
    IN  IF ints = <<>> /\ frac = <<>> THEN [nan |-> TRUE, neg |-> FALSE, m |-> 0, dec |-> 0]
        ELSE [nan |-> FALSE, neg |-> neg, m |-> DigitsValue(ints \o frac), dec |-> Len(frac)]

Multiplier(suffix) ==
    CASE suffix = "K" -> 1000
      [] suffix = "M" -> 1000000
      [] suffix = "B" -> 1000000000
      [] OTHER -> 1

parseNetWorth(value) ==
    IF value.null THEN NullWorth
    ELSE LET raw == Trim(value.text)
             cleaned == Trim(RemoveUSD(RemoveChar(ToUpper(raw), "$")))
             match == RegexMatch(cleaned)
             number == ParseFloat(RemoveChar(match.num, ","))
         IN  IF raw = <<>> THEN NullWorth
             ELSE IF ~match.matched THEN NullWorth
             ELSE IF number.nan THEN NullWorth
             ELSE [null |-> FALSE, neg |-> number.neg, m |-> number.m,
                   dec |-> number.dec, mult |-> Multiplier(match.suffix)]

\* v < t and v <= t for a parsed number v and an integer t > 0, without overflow
ValueLT(v, t) ==
    LET p == v.mult
        q == Pow10(v.dec)
    IN  IF v.neg THEN TRUE
        ELSE IF p >= q THEN v.m <= (t - 1) \div (p \div q)
        ELSE v.m \div (q \div p) < t

ValueLE(v, t) ==
    LET p == v.mult
        q == Pow10(v.dec)
    IN  IF v.neg THEN TRUE
        ELSE IF p >= q THEN v.m <= t \div (p \div q)
        ELSE (v.m + (q \div p) - 1) \div (q \div p) <= t

getWorthClass(netWorthValue) ==
    IF netWorthValue.null THEN "worth-unknown"
    ELSE IF ValueLT(netWorthValue, netWorthLow) THEN "worth-low"
    ELSE IF ValueLT(netWorthValue, netWorthHigh) THEN "worth-mid"
    ELSE "worth-high"

RECURSIVE SeqsUpTo(_, _)
SeqsUpTo(S, n) ==
    IF n = 0 THEN {<<>>}
    ELSE LET shorter == SeqsUpTo(S, n - 1)
         IN  shorter \cup {Append(s, c) : s \in {t \in shorter : Len(t) = n - 1}, c \in S}

-----------------------------------------------------------------------------
(* Records: normalizeRows, main.js:214-252.  A sheet row is its name cell  *)
(* and its net-worth cell.                                                 *)

Row(name, worth) == [name |-> name, worth |-> worth]

IsBlank(cell) == cell.null \/ Trim(cell.text) = <<>>

\* rows.filter(row => row.some(cell => String(cell || "").trim() !== ""))
NonBlankRows(sheetRows) == SelectSeq(sheetRows, LAMBDA r : r.name # "" \/ ~IsBlank(r.worth))

normalizeRows(sheetRows) ==
    LET kept == NonBlankRows(sheetRows)
    IN  [index \in 1..Len(kept) |->
            [name |-> IF kept[index].name # "" THEN <<kept[index].name>>
                      ELSE <<"Person", index>>,
             netWorthRaw |-> IF kept[index].worth.null THEN <<>> ELSE kept[index].worth.text,
             netWorthValue |-> parseNetWorth(kept[index].worth)]]

\* the length of records.slice(0, MAX_RECORDS)
SceneCount(n) == Min(n, MAX_RECORDS)

\* records.slice(0, MAX_RECORDS)
SliceRecords(records) == SubSeq(records, 1, SceneCount(Len(records)))

-----------------------------------------------------------------------------
(* Tiles: buildObjects, main.js:340-383 *)

Tile(g, record, position) ==
    [gen |-> g, record |-> record, worth |-> getWorthClass(record.netWorthValue),
     position |-> position, rotation |-> ZeroVec]

\* positions[i]: what Math.random() * 4000 - 2000 gave for tile i
buildObjects(objs, records, g, positions) ==
    objs \o [i \in 1..Len(records) |-> Tile(g, records[i], positions[i])]

-----------------------------------------------------------------------------
(* The tween library as main.js uses it: TWEEN.removeAll, new Tween(obj)   *)
(* .to(end, duration).easing(Exponential.InOut).start(), TWEEN.update      *)

\* denominator of the easing value
EaseDen == 2048

RECURSIVE Pow2(_)
Pow2(k) == IF k = 0 THEN 1 ELSE 2 * Pow2(k - 1)

\* Easing.Exponential.InOut at amount = num / den, as a numerator over EaseDen,
\* without its "if (amount === 1) return 1"
ExponentialInOutNoEnd(num, den) ==
    LET k == (20 * num) \div den
    IN  IF num = 0 THEN 0
        ELSE IF 2 * num < den THEN Pow2(k)
        ELSE EaseDen - Pow2(20 - k)

\* Easing.Exponential.InOut at amount = num / den, as a numerator over EaseDen:
\* 0 at 0, 1 at 1, 2^(20a-11) below one half, 1 - 2^(9-20a) from one half on,
\* the exponent taken at the twentieth of the duration reached
ExponentialInOut(num, den) ==
    LET k == (20 * num) \div den
    IN  IF num = 0 THEN 0
        ELSE IF num = den THEN EaseDen
        ELSE IF 2 * num < den THEN Pow2(k)
        ELSE EaseDen - Pow2(20 - k)

\* elapsed = (time - start) / duration, 1 when duration is 0 or elapsed > 1
ElapsedOf(tw, time) ==
    IF tw.duration = 0 \/ time - tw.start > tw.duration THEN [num |-> 1, den |-> 1]
    ELSE [num |-> time - tw.start, den |-> tw.duration]

\* if (elapsed === 1): the tween is over
IsComplete(tw, time) == ElapsedOf(tw, time).num = ElapsedOf(tw, time).den

EasedValue(tw, time) ==
    ExponentialInOut(ElapsedOf(tw, time).num, ElapsedOf(tw, time).den)

\* start + (end - start) * value
Lerp(a, b, value) == a + ((b - a) * value) \div EaseDen
LerpVec(a, b, value) == [k \in 1..3 |-> Lerp(a[k], b[k], value)]

\* TWEEN.removeAll()
TweenKeepAll(tws) == tws
TweenRemoveAll(tws) == <<>>

\* the start values a tween captures in start(): the property's current value
StartValue(obj, prop) == obj[prop]

\* the target of tile i (from 0): targetsList[i % targetsList.length]
TargetIndex(i, length) == (i % length) + 1

\* the tweens transform starts for its tiles, in the order it starts them
TileTweens(objs, targetsList, duration, time) ==
    [k \in 1..(2 * Len(objs)) |->
        LET i == (k + 1) \div 2
            prop == IF k % 2 = 1 THEN "position" ELSE "rotation"
            target == targetsList[TargetIndex(i - 1, Len(targetsList))]
        IN  [gen |-> objs[i].gen, index |-> i, prop |-> prop,
             from |-> StartValue(objs[i], prop),
             to |-> target[prop],
             start |-> time, duration |-> duration]]

\* new TWEEN.Tween(this).to({}, duration).onUpdate(render).start()
RenderTween(duration, time) ==
    [gen |-> 0, index |-> 0, prop |-> "render", from |-> ZeroVec, to |-> ZeroVec,
     start |-> time, duration |-> duration]

\* a transform that refuses a list of another length than the tiles
transformChecked(objs, tws, targetsList, duration, time) ==
    IF Len(targetsList) # Len(objs)
    THEN [tweens |-> tws, threw |-> "LayoutMismatch"]
    ELSE [tweens |-> TileTweens(objs, targetsList, duration, time)
                        \o <<RenderTween(duration, time)>>,
          threw |-> NONE]

\* a transform whose tweens start from the target of the tween they replace
transformFromOldTarget(objs, tws, targetsList, duration, time) ==
    LET fresh == TileTweens(objs, targetsList, duration, time)
        Old(t) == SelectSeq(tws, LAMBDA o : o.gen = t.gen /\ o.index = t.index /\ o.prop = t.prop)
    IN  IF objs # <<>> /\ targetsList = <<>>
        THEN [tweens |-> <<>>, threw |-> "TypeError"]
        ELSE [tweens |-> [k \in 1..Len(fresh) |->
                             IF Old(fresh[k]) = <<>> THEN fresh[k]
                             ELSE [fresh[k] EXCEPT !.from = Old(fresh[k])[1].to]]
                         \o <<RenderTween(duration, time)>>,
              threw |-> NONE]

\* transform(targetsList, duration), main.js:490-517: the group afterwards and the
\* exception thrown (reading .position of undefined when the list is empty)
transform(objs, tws, targetsList, duration, time) ==
    IF objs # <<>> /\ targetsList = <<>>
    THEN [tweens |-> TweenRemoveAll(tws), threw |-> "TypeError"]
    ELSE [tweens |-> TweenRemoveAll(tws) \o TileTweens(objs, targetsList, duration, time)
                        \o <<RenderTween(duration, time)>>,
          threw |-> NONE]

\* one tween's update(time) on the tiles
ApplyTween(objs, tw, time) ==
    IF tw.prop # "render" /\ tw.index <= Len(objs) /\ objs[tw.index].gen = tw.gen
    THEN [objs EXCEPT ![tw.index][tw.prop] = LerpVec(tw.from, tw.to, EasedValue(tw, time))]
    ELSE objs

\* TWEEN.update(): every tween of the group in the order added; a completed tween
\* leaves the group
RECURSIVE TweenUpdate(_, _, _, _)
TweenUpdate(objs, tws, time, k) ==
    IF k > Len(tws) THEN [objects |-> objs, tweens |-> <<>>]
    ELSE IF time < tws[k].start
    THEN LET rest == TweenUpdate(objs, tws, time, k + 1)
         IN  [objects |-> rest.objects, tweens |-> <<tws[k]>> \o rest.tweens]
    ELSE LET rest == TweenUpdate(ApplyTween(objs, tws[k], time), tws, time, k + 1)
         IN  [objects |-> rest.objects,
              tweens |-> IF IsComplete(tws[k], time) THEN rest.tweens
                         ELSE <<tws[k]>> \o rest.tweens]

-----------------------------------------------------------------------------
(* Scene lifecycle: cleanupScene, initScene, animate, main.js:298-338, 527-533 *)

\* a cleanupScene that forgets the running frame loop
cleanupSceneNoCancel(s) ==
    [pending  |-> s.pending,
     attached |-> IF s.renderer # 0 /\ s.renderer \in s.attached
                  THEN s.attached \ {s.renderer} ELSE s.attached,
     objects  |-> <<>>,
     targets  |-> NoTargets,
     threw    |-> NONE]

\* a cleanupScene that leaves the layout sets as they are
cleanupSceneKeepTargets(s) ==
    [pending  |-> IF s.animationId # 0 THEN s.pending \ {s.animationId} ELSE s.pending,
     attached |-> IF s.renderer # 0 /\ s.renderer \in s.attached
                  THEN s.attached \ {s.renderer} ELSE s.attached,
     objects  |-> <<>>,
     targets  |-> s.targets,
     threw    |-> NONE]

cleanupScene(s) ==
    [pending  |-> IF s.animationId # 0 THEN s.pending \ {s.animationId} ELSE s.pending,
     attached |-> IF s.renderer # 0 /\ s.renderer \in s.attached
                  THEN s.attached \ {s.renderer} ELSE s.attached,
     objects  |-> <<>>,
     targets  |-> NoTargets,
     threw    |-> NONE]

\* the scene variables as one record
Scene ==
    [objects |-> objects, targets |-> targets, tweens |-> tweens,
     animationId |-> animationId, nextFrameId |-> nextFrameId, pending |-> pending,
     controls |-> controls, renderer |-> renderer, attached |-> attached,
     gen |-> gen, menuHandlers |-> menuHandlers,
     transStart |-> transStart, transTarget |-> transTarget, threw |-> NONE]

\* animate(): request the next frame, TWEEN.update(), controls.update(), render()
animate(s, time) ==
    LET upd == TweenUpdate(s.objects, s.tweens, time, 1)
    IN  [s EXCEPT !.animationId = s.nextFrameId,
                  !.pending = s.pending \cup {s.nextFrameId},
                  !.nextFrameId = s.nextFrameId + 1,
                  !.objects = upd.objects,
                  !.tweens = upd.tweens,
                  !.threw = IF s.controls = 0 THEN "TypeError" ELSE NONE]

\* initScene(records): the scene afterwards; threw names the exception that
\* ended it early, if any
initScene(s, records, positions, time) ==
    LET c == cleanupScene(s)
        g == s.gen + 1
        objs == buildObjects(c.objects, records, g, positions)
        tgts == buildTargets(c.targets, Len(records))
        tr == transform(objs, s.tweens, tgts.table, Duration, time)
        built == [s EXCEPT !.pending = c.pending,
                           !.attached = c.attached \cup {g},
                           !.renderer = g,
                           !.controls = g,
                           !.gen = g,
                           !.objects = objs,
                           !.targets = tgts,
                           !.menuHandlers = s.menuHandlers + 1,
                           !.tweens = tr.tweens,
                           !.transStart = time,
                           !.transTarget = tgts.table,
                           !.threw = tr.threw]
    IN  IF c.threw # NONE
        THEN [s EXCEPT !.pending = c.pending, !.attached = c.attached, !.threw = c.threw]
        ELSE IF tr.threw # NONE THEN built
        ELSE animate(built, time)

-----------------------------------------------------------------------------
(* Inputs *)

\* what Math.random() * 4000 - 2000 gives the tiles of one build, main.js:376-378:
\* two streams of draws, each within [-2000, 2000)
RandomSeeds == {0, 1}
RandomPosition(seed, i) ==
    IF (seed + i) % 2 = 0 THEN Vec(-2000, -2000, -2000) ELSE Vec(1999, 0, 500)

\* row k of the sheets fetched: a blank row second, named rows around it
SheetRow(k) ==
    CASE k = 2 -> Row("", Cell(<<" ">>))
      [] k % 3 = 1 -> Row("Ann", Cell(<<"9", "9", "K">>))
      [] k % 3 = 0 -> Row("Bob", NullCell)
      [] OTHER -> Row("Cy", Cell(<<".", "2", "M">>))

\* json.values of the response, as const [header, ...rows]
Sheets == {[header |-> h, rows |-> [k \in 1..n |-> SheetRow(k)]] :
              h \in BOOLEAN, n \in 0..MaxSheetRows}

-----------------------------------------------------------------------------
(* State *)

sceneVars == <<objects, targets, tweens, animationId, nextFrameId, pending,
               controls, renderer, attached, gen, menuHandlers, transStart,
               transTarget, lastRecords>>
uiVars == <<statusText, overlayHidden, menuShown>>
callVars == <<accessToken, calls, lastDone>>
auxVars == <<lyRows, rawWorth, worthOut>>

\* after boot(): no scene, the sign-in button bound, status "Signed out"
InitScene0 ==
    /\ objects = <<>>
    /\ targets = NoTargets
    /\ tweens = <<>>
    /\ now = 0
    /\ animationId = 0
    /\ nextFrameId = 1
    /\ pending = {}
    /\ controls = 0
    /\ renderer = 0
    /\ attached = {}
    /\ gen = 0
    /\ menuHandlers = 0
    /\ accessToken = FALSE
    /\ calls = <<>>
    /\ lastDone = [failed |-> FALSE, errs |-> 0, fetches |-> 0]
    /\ statusText = "signed-out"
    /\ overlayHidden = FALSE
    /\ menuShown = FALSE
    /\ threw = NONE
    /\ transStart = 0
    /\ transTarget = <<>>
    /\ lastRecords = <<>>
    /\ gestures = 0

Init ==
    /\ InitScene0
    /\ lyRows = 0
    /\ rawWorth = NullCell
    /\ worthOut = <<>>

SetScene(s) ==
    /\ objects' = s.objects
    /\ targets' = s.targets
    /\ tweens' = s.tweens
    /\ animationId' = s.animationId
    /\ nextFrameId' = s.nextFrameId
    /\ pending' = s.pending
    /\ controls' = s.controls
    /\ renderer' = s.renderer
    /\ attached' = s.attached
    /\ gen' = s.gen
    /\ menuHandlers' = s.menuHandlers
    /\ transStart' = s.transStart
    /\ transTarget' = s.transTarget

-----------------------------------------------------------------------------
(* The sign-in button and the token callback, main.js:141-168, 189-212 *)

NewCall == [pc |-> "auth", fetches |-> 0]

RemoveAt(q, c) == SubSeq(q, 1, c - 1) \o SubSeq(q, c + 1, Len(q))

\* signinBtn click: status("Signing in..."), tokenClient.requestAccessToken
SignIn ==
    /\ gestures < MaxGestures
    /\ gestures' = gestures + 1
    /\ calls' = Append(calls, NewCall)
    /\ statusText' = "signing-in"
    /\ UNCHANGED <<sceneVars, now, accessToken, lastDone, overlayHidden, menuShown,
                   threw, auxVars>>

\* the callback returns: it leaves the callbacks under way.  failed: whether
\* fetching the records failed
Done(c, failed, errs) ==
    /\ calls' = RemoveAt(calls, c)
    /\ lastDone' = [failed |-> failed, errs |-> errs, fetches |-> calls[c].fetches]

\* catch (e) { console.error(e); status(`Error: ${e.message}`) }
Fail(c) ==
    /\ Done(c, TRUE, 1)
    /\ statusText' = "error"

\* the callback is entered: accessToken = resp.access_token, then fetchSheet()
\* either throws "No access token" or issues the fetch
TokenCallback(c, hasToken) ==
    /\ calls[c].pc = "auth"
    /\ accessToken' = hasToken
    /\ IF ~hasToken
       THEN Fail(c)
       ELSE /\ calls' = [calls EXCEPT ![c].pc = "fetching", ![c].fetches = @ + 1]
            /\ statusText' = "token"
            /\ UNCHANGED lastDone
    /\ UNCHANGED <<sceneVars, now, gestures, overlayHidden, menuShown, threw, auxVars>>

\* await fetch(url, ...) settles: rejected, or a response with res.ok or not
FetchSettled(c, outcome) ==
    /\ calls[c].pc = "fetching"
    /\ CASE outcome = "reject" -> Fail(c)
         [] outcome = "notok" ->
              /\ calls' = [calls EXCEPT ![c].pc = "errbody"]
              /\ UNCHANGED <<statusText, lastDone>>
         [] OTHER ->
              /\ calls' = [calls EXCEPT ![c].pc = "body"]
              /\ UNCHANGED <<statusText, lastDone>>
    /\ UNCHANGED <<sceneVars, now, accessToken, gestures, overlayHidden, menuShown, threw, auxVars>>

\* await res.json().catch(...) of a response that is not ok, then the throw
ErrorBodyRead(c) ==
    /\ calls[c].pc = "errbody"
    /\ Fail(c)
    /\ UNCHANGED <<sceneVars, now, accessToken, gestures, overlayHidden, menuShown, threw, auxVars>>

\* if (!header?.length) throw
HasHeaderAlways(sheet) == TRUE
HasHeader(sheet) == sheet.header

\* await res.json() of an ok response, and the rest of the callback: the header
\* check, normalizeRows, status, initScene, the ready UI; an exception goes to
\* the callback's catch
BodyRead(c, sheet, seed) ==
    /\ calls[c].pc = "body"
    /\ IF ~HasHeader(sheet)
       THEN /\ Fail(c)
            /\ UNCHANGED <<sceneVars, overlayHidden, menuShown>>
       ELSE LET records == SliceRecords(normalizeRows(sheet.rows))
                positions == [i \in 1..Len(records) |-> RandomPosition(seed, i)]
                s == initScene(Scene, records, positions, now)
            IN  /\ SetScene(s)
                /\ lastRecords' = records
                /\ IF s.threw # NONE
                   THEN /\ Done(c, ~sheet.header, 1)
                        /\ statusText' = "error"
                        /\ UNCHANGED <<overlayHidden, menuShown>>
                   ELSE /\ Done(c, ~sheet.header, 0)
                        /\ statusText' = "fetched"
                        /\ overlayHidden' = TRUE
                        /\ menuShown' = TRUE
    /\ UNCHANGED <<now, accessToken, gestures, threw, auxVars>>

-----------------------------------------------------------------------------
(* Menu buttons and the frame loop, main.js:476-487, 527-533 *)

\* every listener registered on the button calls transform(targets[name], 2000)
RECURSIVE ClickAll(_, _, _, _, _)
ClickAll(n, objs, tws, targetsList, time) ==
    IF n = 0 THEN [tweens |-> tws, threw |-> NONE]
    ELSE LET one == transform(objs, tws, targetsList, Duration, time)
             rest == ClickAll(n - 1, objs, one.tweens, targetsList, time)
         IN  [tweens |-> rest.tweens,
              threw |-> IF one.threw # NONE THEN one.threw ELSE rest.threw]

Click(name) ==
    /\ menuShown
    /\ menuHandlers > 0
    /\ gestures < MaxGestures
    /\ gestures' = gestures + 1
    /\ LET r == ClickAll(menuHandlers, objects, tweens, targets[name], now)
       IN  /\ tweens' = r.tweens
           /\ threw' = IF r.threw # NONE THEN r.threw ELSE threw
    /\ transStart' = now
    /\ transTarget' = targets[name]
    /\ UNCHANGED <<objects, targets, now, animationId, nextFrameId, pending, controls,
                   renderer, attached, gen, menuHandlers, lastRecords, callVars,
                   uiVars, auxVars>>

\* the browser runs a requested frame callback, FrameStep ms after the last one
Tick(id) ==
    /\ id \in pending
    /\ now + FrameStep <= MaxTime
    /\ now' = now + FrameStep
    /\ LET s == animate([Scene EXCEPT !.pending = pending \ {id}], now + FrameStep)
       IN  /\ SetScene(s)
           /\ threw' = IF s.threw # NONE THEN s.threw ELSE threw
    /\ UNCHANGED <<lastRecords, gestures, callVars, uiVars, auxVars>>

Next ==
    \/ SignIn
    \/ \E c \in 1..Len(calls), hasToken \in BOOLEAN : TokenCallback(c, hasToken)
    \/ \E c \in 1..Len(calls), outcome \in {"ok", "notok", "reject"} : FetchSettled(c, outcome)
    \/ \E c \in 1..Len(calls) : ErrorBodyRead(c)
    \/ \E c \in 1..Len(calls), sheet \in Sheets, seed \in RandomSeeds : BodyRead(c, sheet, seed)
    \/ \E name \in LayoutNames : Click(name)
    \/ \E id \in pending : Tick(id)

Spec == Init /\ [][Next]_vars

-----------------------------------------------------------------------------
(* The layout generators on their own: any number of fetched records up to *)
(* MaxRows, cut to MAX_RECORDS as the callback does, then buildTargets     *)

InitLayout ==
    /\ InitScene0
    /\ lyRows \in 0..MaxRows
    /\ rawWorth = NullCell
    /\ worthOut = <<>>

LayoutBuild ==
    /\ targets = NoTargets
    /\ targets' = buildTargets(targets, SceneCount(lyRows))
    /\ UNCHANGED <<objects, tweens, now, animationId, nextFrameId, pending, controls,
                   renderer, attached, gen, menuHandlers, transStart, transTarget,
                   lastRecords, gestures, callVars, uiVars, threw, auxVars>>

SpecLayout == InitLayout /\ [][LayoutBuild]_vars

-----------------------------------------------------------------------------
(* Net worth on its own: any raw cell up to MaxRawLen characters, parsed   *)
(* by normalizeRows and coloured by buildObjects                           *)

InitWorth ==
    /\ InitScene0
    /\ lyRows = 0
    /\ rawWorth \in {NullCell} \cup {Cell(t) : t \in SeqsUpTo(WorthAlphabet, MaxRawLen)}
    /\ worthOut = <<>>

WorthBuild ==
    /\ worthOut = <<>>
    /\ worthOut' = <<[value |-> parseNetWorth(rawWorth),
                      class |-> getWorthClass(parseNetWorth(rawWorth))]>>
    /\ UNCHANGED <<sceneVars, now, gestures, callVars, uiVars, threw, lyRows, rawWorth>>

SpecWorth == InitWorth /\ [][WorthBuild]_vars

-----------------------------------------------------------------------------
(* transform called directly with any layout list, as its signature allows *)

\* the lists handed to transform: a sphere layout of each length
ApiLayouts == {buildSphereTargets(<<>>, n) : n \in 0..MaxSheetRows}

TransformCall(targetsList) ==
    /\ gen > 0
    /\ gestures < MaxGestures
    /\ gestures' = gestures + 1
    /\ LET r == transform(objects, tweens, targetsList, Duration, now)
       IN  /\ tweens' = r.tweens
           /\ threw' = IF r.threw # NONE THEN r.threw ELSE threw
    /\ transStart' = now
    /\ transTarget' = targetsList
    /\ UNCHANGED <<objects, targets, now, animationId, nextFrameId, pending, controls,
                   renderer, attached, gen, menuHandlers, lastRecords, callVars,
                   uiVars, auxVars>>

NextApi ==
    \/ SignIn
    \/ \E c \in 1..Len(calls), hasToken \in BOOLEAN : TokenCallback(c, hasToken)
    \/ \E c \in 1..Len(calls), outcome \in {"ok", "notok", "reject"} : FetchSettled(c, outcome)
    \/ \E c \in 1..Len(calls) : ErrorBodyRead(c)
    \/ \E c \in 1..Len(calls), sheet \in Sheets, seed \in RandomSeeds : BodyRead(c, sheet, seed)
    \/ \E targetsList \in ApiLayouts : TransformCall(targetsList)
    \/ \E id \in pending : Tick(id)

SpecApi == Init /\ [][NextApi]_vars

-----------------------------------------------------------------------------
(* Properties *)

TileTweenSet == {tweens[k] : k \in {j \in 1..Len(tweens) : tweens[j].prop # "render"}}

\* the latest transition has run its full duration and a frame has run since
Completed == gen > 0 /\ now - transStart >= Duration

PoseOf(obj) == Pose(obj.position, obj.rotation)

ClickStep == gestures' # gestures /\ calls' = calls

\* C3 (no discontinuity): a transform call from the menu, at any moment, leaves
\* every tile's pose as it is, and the tweens it starts take the tile's pose at
\* the call (mid-animation included) as their start value.
C3_NoDiscontinuity ==
    [][ClickStep =>
          /\ objects' = objects
          /\ Len(tweens') = 2 * Len(objects) + 1
          /\ \A k \in 1..Len(tweens') :
                tweens'[k].prop # "render" =>
                    tweens'[k].from = objects[tweens'[k].index][tweens'[k].prop]]_vars

\* a click has just interrupted the first transition of the first scene: a tween
\* starts from a pose that is neither the tile's first pose nor the table's
C3_Witness ==
    /\ gen = 1
    /\ transStart = now
    /\ now > 0
    /\ now < Duration
    /\ \E k \in 1..Len(tweens) :
          /\ tweens[k].prop = "position"
          /\ tweens[k].from = objects[tweens[k].index].position
          /\ tweens[k].from # targets.table[tweens[k].index].position
          /\ tweens[k].from \notin {RandomPosition(seed, i) : seed \in RandomSeeds, i \in 1..2}
          /\ tweens[k].to # targets.table[tweens[k].index].position

\* the list handed to the latest transform call is not as long as the tiles
Mismatch == gen > 0 /\ Len(transTarget) # Len(objects)

WrapSlot(i, targetsList) == targetsList[((i - 1) % Len(targetsList)) + 1]

C5_SizeAndOrder ==
    /\ Len(objects) = Len(lastRecords)
    /\ \A name \in LayoutNames : Len(targets[name]) = Len(objects)
    /\ \A i \in 1..Len(objects) :
          /\ objects[i].record = lastRecords[i]
          /\ objects[i].gen = gen
    /\ targets = buildTargets(NoTargets, Len(lastRecords))

\* a second initialisation with one record, after frames have run
C5_Witness ==
    /\ gen = 2
    /\ now > 0
    /\ Len(lastRecords) = 1
    /\ Len(objects) = 1
    /\ Len(targets.helix) = 1

\* C6 (re-initialisation leaks nothing): no handler throws (the first
\* initScene runs cleanupScene with no scene), a callback whose fetch succeeded
\* reports no error, at most one frame callback is pending (the one animationId
\* names), one renderer element is attached, and tiles and tweens are those of
\* the latest scene.
C6_NoLeak ==
    /\ threw = NONE
    /\ ~lastDone.failed => lastDone.errs = 0
    /\ Cardinality(pending) <= 1
    /\ gen > 0 => pending = {animationId}
    /\ Cardinality(attached) <= 1
    /\ \A i \in 1..Len(objects) : objects[i].gen = gen
    /\ \A tw \in TileTweenSet : tw.gen = gen

\* a second scene, with frames run since the first was initialised
C6_Witness ==
    /\ gen = 2
    /\ now > 0
    /\ nextFrameId > 4
    /\ pending = {animationId}
    /\ Len(objects) = 2

\* a step in which a token callback ends having failed to fetch the records
FailureStep == Len(calls') < Len(calls) /\ lastDone'.failed

\* a step in which a token callback ends having fetched them
SuccessStep == Len(calls') < Len(calls) /\ ~lastDone'.failed

\* C7 (data failure is "no data"): a callback whose fetch fails (no token,
\* network error, response not ok, no header row) reports one error status,
\* leaves tiles, layout sets, tweens and frame loop as they are, does not show
\* the ready UI, and has issued at most one fetch; no step of a callback other
\* than a successful end touches the scene.
C7_DataFailure ==
    [][/\ FailureStep =>
            /\ UNCHANGED <<sceneVars, overlayHidden, menuShown>>
            /\ statusText' = "error"
            /\ lastDone'.errs = 1
            /\ lastDone'.fetches <= 1
       /\ (calls' # calls /\ ~SuccessStep) => UNCHANGED <<sceneVars, overlayHidden, menuShown>>
       /\ \A c \in 1..Len(calls') : calls'[c].fetches <= 1]_vars

\* a callback failed while a scene was running
C7_Witness ==
    /\ lastDone.failed
    /\ lastDone.fetches = 1
    /\ statusText = "error"
    /\ gen = 1
    /\ menuShown
    /\ Len(objects) = 2
    /\ now > 0

\* C8 (grid lattice): slot i of the grid layout is at cell (i mod 5,
\* floor(i/5) mod 4, floor(i/20) mod 10), at ((x-2)*320, -(y-1.5)*320,
\* (z-4.5)*320); the slots are pairwise apart; with 200 slots every cell of the
\* 5x4x10 lattice holds exactly one; and a scene never has more than 200.
C8_GridLattice ==
    LET g == targets.grid
        n == Len(g)
        CellPosition(x, y, z) == Vec((x - 2) * 320, -(2 * y - 3) * 160, (2 * z - 9) * 160)
    IN  /\ n <= 200
        /\ targets # NoTargets => n = IF lyRows < 200 THEN lyRows ELSE 200
        /\ \A i \in 0..(n - 1) :
              g[i + 1].position = CellPosition(i % 5, (i \div 5) % 4, (i \div 20) % 10)
        /\ \A i, j \in 1..n : i # j => g[i].position # g[j].position
        /\ n = 200 =>
              \A x \in 0..4, y \in 0..3, z \in 0..9 :
                  Cardinality({i \in 1..n : g[i].position = CellPosition(x, y, z)}) = 1

\* more than 200 records were fetched and the grid was built for 200
C8_Witness == lyRows > 200 /\ Len(targets.grid) = 200

\* C9 (table geometry): slot i of the table layout is at x = (i mod 20)*140 -
\* 1330, y = -(floor(i/20)*180 - 810), z = 0 whatever the count; with 200 slots
\* slot 0 has the least x and greatest y and slot 199 the greatest x and least y.
C9_TableGeometry ==
    LET t == targets.table
        n == Len(t)
    IN  /\ \A i \in 0..(n - 1) :
              t[i + 1].position = Vec((i % 20) * 140 - 1330, -((i \div 20) * 180 - 810), 0)
        /\ n = 200 =>
              \A i \in 1..n :
                  /\ t[1].position[1] <= t[i].position[1]
                  /\ t[1].position[2] >= t[i].position[2]
                  /\ t[200].position[1] >= t[i].position[1]
                  /\ t[200].position[2] <= t[i].position[2]

\* a table of 7 slots: fewer than one row
C9_Witness == lyRows = 7 /\ Len(targets.table) = 7 /\ targets.table[7].position = Vec(-490, 810, 0)

\* C10 as claimed (and as the README has it): worth-unknown for a missing or
\* unparsable value, else worth-low below 100000, worth-mid from 100000 to
\* 200000, worth-high above 200000.
C10_AsClaimed ==
    worthOut # <<>> =>
        LET v == worthOut[1].value
            class == worthOut[1].class
        IN  IF v.null THEN class = "worth-unknown"
            ELSE /\ class = "worth-low" <=> ValueLT(v, 100000)
                 /\ class = "worth-mid" <=> (~ValueLT(v, 100000) /\ ValueLE(v, 200000))
                 /\ class = "worth-high" <=> ~ValueLE(v, 200000)

=============================================================================
